---------------------------- MODULE Spec2Model ----------------------------
(***************************************************************************)
(* FDX decoder, libfdx/yamldecode.py: the frame synchronizer               *)
(* FDXProcess.lineprotocol, the frame decoder FDXProcess.decode_frame and  *)
(* the field primitives checklength and intdecoder.                        *)
(*                                                                         *)
(* Bytes are sequences of integers 0..255; Python's 0-based indices are    *)
(* kept in the definitions' parameters and results and shifted by one only *)
(* where a TLA+ sequence is indexed.                                       *)
(*                                                                         *)
(* Reading of lineprotocol.  Three names in the scan loop do not resolve   *)
(* as written: `headers` (l.125) is bound neither in the function nor in   *)
(* the module, `"\x81" + framehdr` (l.126) adds text to the integer of     *)
(* l.103, and `bytes[...]` (l.134) subscripts the type.  Taken to the      *)
(* letter each aborts the round it is evaluated in, the first of them in   *)
(* every round, so that no statement of the scan or of the emission would  *)
(* ever run.  The model reads them as what they stand for inside the       *)
(* class: the class attribute `headers`, the sentinel followed by the      *)
(* header's three bytes, and the buffer `buf`.  Every other statement is   *)
(* modelled as written, with its assertions and index errors as outcomes.  *)
(* decode_frame is modelled to the letter, its unbound `message` (l.173)   *)
(* included.                                                               *)
(***************************************************************************)
EXTENDS Integers, Sequences, FiniteSets, TLC

VARIABLES
    buf,        \* lineprotocol: the local buffer (l.118)
    consumed,   \* every byte the reader has returned so far, in order
    emitted,    \* the items yielded so far (l.144, l.145), in order
    pc,         \* "run": suspended in the loop; "raised": the generator ended
    err,        \* the exception that ended the generator, or NoError
    reads,      \* number of calls of reader made so far
    last,       \* the last round: the chunk read, the buffer scanned, the items yielded
    handlers,   \* FDXProcess.handlers: the registered type identifiers
    decoded,    \* the last call of decode_frame: its frame and its outcome
    pure        \* the last call of checklength or intdecoder, and its outcome

vars == <<buf, consumed, emitted, pc, err, reads, last, handlers, decoded, pure>>
syncvars == <<buf, consumed, emitted, pc, err, reads, last>>

----------------------------------------------------------------------------
(* Bounds and input sets *)

MaxReads == 4

SENTINEL == 129

\* The chunks a call of reader(100) may return: nothing, one byte, or a piece
\* of a frame, so that streams split frames between reads.
NoBytes == <<>>
JunkByte == <<0>>
OneSentinel == <<SENTINEL>>
Start1 == <<SENTINEL, 1, 4, 2>>
Start2 == <<SENTINEL, 1, 1, 6>>
Body1 == <<0, 0, 0, 0, 0, 0>>
Body1Mid == <<0, 0, 0, SENTINEL, 0, 0>>
Body2 == <<0, 0, 0, 0, 0, 0, 0, 0, 0, 0>>

Chunks == {NoBytes, JunkByte, OneSentinel, Start1, Start2, Body1, Body1Mid, Body2}

----------------------------------------------------------------------------
(* Python helpers *)

Min(a, b) == IF a < b THEN a ELSE b

\* s[a:b] for 0 <= a, 0 <= b
Slice(s, a, b) ==
    IF a >= Min(b, Len(s)) THEN <<>> ELSE SubSeq(s, a + 1, Min(b, Len(s)))

\* s[a:]
SliceFrom(s, a) == Slice(s, a, Len(s))

\* s.find(pat): the lowest 0-based index at which pat occurs in s, or -1
find(s, pat) ==
    LET hits == {i \in 0..(Len(s) - Len(pat)) : SubSeq(s, i + 1, i + Len(pat)) = pat}
    IN  IF hits = {} THEN -1 ELSE CHOOSE i \in hits : \A j \in hits : i <= j

\* FDXProcess.headers: (type identifier, body length)
headers == << <<66562, 6>>, <<65798, 10>> >>

\* the three bytes of a type identifier, most significant first
HdrBytes(h) == << h \div 65536, (h \div 256) % 256, h % 256 >>

\* the pattern searched for: "\x81" + framehdr
Pattern(h) == <<SENTINEL>> \o HdrBytes(h)

\* Python's False where lineprotocol uses it as a number (frameidx > 1,
\* buf[frameidx+1:framelen], buf[frameidx:])
False == 0

NoError == [type |-> "none", line |-> 0]
Raise(t, l) == [type |-> t, line |-> l]

----------------------------------------------------------------------------
(* lineprotocol, the scan loop of l.122-139 over headers[i..]: the values  *)
(* of frameidx and framelen when the loop is left, or the exception.       *)

RECURSIVE ScanHeaders(_, _, _, _)
ScanHeaders(b, i, frameidx, framelen) ==
    IF i > Len(headers)
    THEN [frameidx |-> frameidx, framelen |-> framelen, err |-> NoError]
    ELSE
      LET framehdr == headers[i][1]
          flen == headers[i][2]
          startidx == find(b, Pattern(framehdr))
      IN  IF startidx = -1
          THEN ScanHeaders(b, i + 1, frameidx, flen)                    \* l.127 continue
          ELSE IF Len(SliceFrom(b, startidx)) < 4 + flen + 1
          THEN [frameidx |-> frameidx, framelen |-> flen, err |-> NoError]  \* l.130 break
          ELSE IF b[(startidx + 1 + flen) + 1] # SENTINEL
          THEN ScanHeaders(b, i + 1, frameidx, flen)                    \* l.134 continue
          ELSE IF b[startidx + 1] # framehdr                            \* l.138
          THEN [frameidx |-> startidx, framelen |-> flen, err |-> Raise("AssertionError", 138)]
          ELSE IF Len(SliceFrom(b, startidx)) < flen                    \* l.139
          THEN [frameidx |-> startidx, framelen |-> flen, err |-> Raise("AssertionError", 139)]
          ELSE ScanHeaders(b, i + 1, startidx, flen)

Scan(b) == ScanHeaders(b, 1, False, 0)

\* l.141-142: `frameidx is not None` holds of False and of every index, so
\* buf[0] is always evaluated.
HeadCheck(b) ==
    IF Len(b) = 0 THEN Raise("IndexError", 142)
    ELSE IF b[1] # SENTINEL THEN Raise("AssertionError", 142)
    ELSE NoError

\* the outcome of one round on the buffer b: the exception, if any
RoundError(b) ==
    IF Scan(b).err # NoError THEN Scan(b).err ELSE HeadCheck(b)

\* l.143-145: the items yielded by a round that raises nothing; base is the
\* stream offset of b[0]
Junk(data, off) == [kind |-> "junk", data |-> data, off |-> off]
Frame(data, off) == [kind |-> "frame", data |-> data, off |-> off]

Yielded(b, base) ==
    LET r == Scan(b)
    IN  (IF r.frameidx > 1 THEN << Junk(Slice(b, 0, r.frameidx), base) >> ELSE <<>>)
        \o << Frame(Slice(b, r.frameidx + 1, r.framelen), base + r.frameidx + 1) >>

\* l.146 with the end of the buffer cut off as well
Advance_cut(b) == Slice(b, Scan(b).frameidx, Len(b) - 1)

\* l.146
Advance(b) == SliceFrom(b, Scan(b).frameidx)

\* the items the generator yields when the reader returns the chunks cs one
\* after the other, from the buffer b with nread bytes read and em yielded
RECURSIVE RunChunks(_, _, _, _)
RunChunks(b, nread, em, cs) ==
    IF cs = <<>> THEN em
    ELSE LET b2 == b \o Head(cs)
             base == nread - Len(b)
         IN  IF RoundError(b2) # NoError THEN em
             ELSE RunChunks(Advance(b2), nread + Len(Head(cs)),
                            em \o Yielded(b2, base), Tail(cs))

----------------------------------------------------------------------------
(* State machine of lineprotocol *)

NoRound == [chunk |-> <<>>, buf |-> <<>>, base |-> 0, items |-> <<>>, ran |-> FALSE]

\* where the synchronizer stands: what a caller sees of it between two rounds
Standing == [reads |-> reads, seen |-> Len(emitted), buf |-> buf, pc |-> pc]

\* no call of checklength or intdecoder made yet
NoCall == [fn |-> "nocall", input |-> <<>>, param |-> 0, signed |-> FALSE,
           kind |-> "nocall", value |-> <<>>]

Init ==
    /\ buf = <<>>
    /\ consumed = <<>>
    /\ emitted = <<>>
    /\ pc = "run"
    /\ err = NoError
    /\ reads = 0
    /\ last = NoRound
    /\ handlers = {}
    /\ decoded = [frame |-> <<>>, reg |-> {}, at |-> Standing,
                  kind |-> "nocall", keys |-> {}]
    /\ pure = NoCall

\* One round of the loop that runs to its end: read, scan, yield, advance.
Round(chunk) ==
    /\ pc = "run"
    /\ reads < MaxReads
    /\ LET b == buf \o chunk
           base == Len(consumed) - Len(buf)
       IN  /\ RoundError(b) = NoError
           /\ consumed' = consumed \o chunk
           /\ emitted' = emitted \o Yielded(b, base)
           /\ buf' = Advance(b)
           /\ last' = [chunk |-> chunk, buf |-> b, base |-> base,
                       items |-> Yielded(b, base), ran |-> TRUE]
    /\ reads' = reads + 1
    /\ UNCHANGED <<pc, err, handlers, decoded, pure>>

\* One round of the loop that ends the generator with an exception.
RoundRaise(chunk) ==
    /\ pc = "run"
    /\ reads < MaxReads
    /\ LET b == buf \o chunk
           base == Len(consumed) - Len(buf)
       IN  /\ RoundError(b) # NoError
           /\ consumed' = consumed \o chunk
           /\ buf' = b
           /\ err' = RoundError(b)
           /\ last' = [chunk |-> chunk, buf |-> b, base |-> base,
                       items |-> <<>>, ran |-> TRUE]
    /\ pc' = "raised"
    /\ reads' = reads + 1
    /\ UNCHANGED <<emitted, handlers, decoded, pure>>

Next ==
    \/ \E chunk \in Chunks : Round(chunk)
    \/ \E chunk \in Chunks : RoundRaise(chunk)

Spec == Init /\ [][Next]_vars

----------------------------------------------------------------------------
(* decode_frame *)

MaxFrameLen == 4

\* the bytes frames handed to decode_frame are made of
DecodeBytes == {32, 8, 40, SENTINEL}

\* type identifiers a caller may register a handler for
TypeIds == {<<32, 8, 40>>, <<33, 4, 37>>}

\* the "no lock" frames of test_gps_position (l.194) and test_gps_cogsog (l.207)
GpsPosNoFix == <<32, 8, 40, 0, 0, 0, 0, 0, 0, 16, 0, 16, SENTINEL>>
GpsCogNoFix == <<33, 4, 37, 255, 255, 0, 0, 0, SENTINEL>>

DecodeFrames ==
    UNION {[1..n -> DecodeBytes] : n \in 0..MaxFrameLen} \cup {GpsPosNoFix, GpsCogNoFix}

\* binascii.hexlify: two hexadecimal digits per byte, high digit first
RECURSIVE hexlify(_)
hexlify(bs) ==
    IF bs = <<>> THEN <<>>
    ELSE <<Head(bs) \div 16, Head(bs) % 16>> \o hexlify(Tail(bs))

Outcome(kind, keys) == [kind |-> kind, keys |-> keys]

\* decode_frame with the length test of l.159 off by one
decode_frame_len3(frame, hs) ==
    IF Len(frame) < 3
    THEN Outcome("DataError", {})
    ELSE IF hexlify(Slice(frame, 0, 3)) \notin hs
         THEN Outcome("None", {})
         ELSE Outcome("NameError", {})

\* decode_frame with the raise of l.171 in place of the return of l.170
decode_frame_raise(frame, hs) ==
    IF Len(frame) < 4
    THEN Outcome("DataError", {})
    ELSE IF hexlify(Slice(frame, 0, 3)) \notin hs
         THEN Outcome("NotImplementedError", {})
         ELSE Outcome("NameError", {})

\* decode_frame(frame) with the registry hs: what the call raises or returns
decode_frame(frame, hs) ==
    IF Len(frame) < 4
    THEN Outcome("DataError", {})                         \* l.159-160
    ELSE
      LET mtype == hexlify(Slice(frame, 0, 3))            \* l.163
          body == SliceFrom(frame, 3)                     \* l.164
      IN  IF mtype \notin hs
          THEN Outcome("None", {})                        \* l.167-170
          ELSE Outcome("NameError", {})                   \* l.173: `message`

\* a caller registers a handler in the class-level dictionary
RegisterHandler(t) ==
    /\ hexlify(t) \notin handlers
    /\ handlers' = handlers \cup {hexlify(t)}
    /\ UNCHANGED <<syncvars, decoded, pure>>

Decode(frame) ==
    /\ decoded' = [frame |-> frame, reg |-> handlers, at |-> Standing]
                      @@ decode_frame(frame, handlers)
    /\ UNCHANGED <<syncvars, handlers, pure>>

NextDecode ==
    \/ \E t \in TypeIds : RegisterHandler(t)
    \/ \E frame \in DecodeFrames : Decode(frame)

SpecDecode == Init /\ [][NextDecode]_vars

\* the caller's loop: each frame is handed to decode_frame as it is yielded
DecodeYielded ==
    /\ pc = "run"
    /\ emitted # <<>>
    /\ emitted[Len(emitted)].kind = "frame"
    /\ Decode(emitted[Len(emitted)].data)

NextPipeline ==
    \/ \E chunk \in Chunks : Round(chunk)
    \/ \E chunk \in Chunks : RoundRaise(chunk)
    \/ DecodeYielded

SpecPipeline == Init /\ [][NextPipeline]_vars

----------------------------------------------------------------------------
(* checklength *)

MaxPduLen == 5

\* the bytes of the frames handed to checklength
PduBytes == {1, SENTINEL}

\* speclen is None or an integer; None is written -1, the lengths are 0, 1, ...
None == -1

SpecLens == {None} \cup (0..(MaxPduLen + 1))

\* pdu is hex encoded, 4 bits per char: the text of a frame, and the same
\* text with its first char missing
PduTexts ==
    LET frames == UNION {[1..n -> PduBytes] : n \in 0..MaxPduLen}
    IN  {hexlify(f) : f \in frames} \cup {Tail(hexlify(f)) : f \in frames \ {<<>>}}

\* s[a:-c] for 0 <= a, 0 < c
SliceButLast(s, a, c) == Slice(s, a, IF Len(s) >= c THEN Len(s) - c ELSE 0)

\* BitArray(hex=...): one byte per two hexadecimal digits
RECURSIVE unhex(_)
unhex(h) ==
    IF Len(h) < 2 THEN <<>>
    ELSE <<16 * h[1] + h[2]>> \o unhex(Tail(Tail(h)))

Result(kind, value) == [kind |-> kind, value |-> value]

\* checklength comparing the number of chars, not of bytes, with speclen
checklength_chars(pdu, speclen) ==
    IF Len(pdu) % 2 # 0 THEN Result("AssertionError", <<>>)
    ELSE IF speclen # None /\ Len(pdu) # speclen THEN Result("DataError", <<>>)
    ELSE Result("BitArray", unhex(SliceButLast(pdu, 6, 2)))

checklength(pdu, speclen) ==
    IF Len(pdu) % 2 # 0
    THEN Result("AssertionError", <<>>)                          \* l.69
    ELSE IF speclen # None /\ Len(pdu) \div 2 # speclen
    THEN Result("DataError", <<>>)                               \* l.71-74
    ELSE Result("BitArray", unhex(SliceButLast(pdu, 6, 2)))      \* l.75

CallCheckLength(pdu, speclen) ==
    /\ pure' = [fn |-> "checklength", input |-> pdu, param |-> speclen,
                signed |-> FALSE] @@ checklength(pdu, speclen)
    /\ UNCHANGED <<syncvars, handlers, decoded>>

----------------------------------------------------------------------------
(* intdecoder *)

MaxBodyLen == 3

\* the bytes of the bodies handed to intdecoder
IntBytes == {0, 1, 128, 255}

IntBodies == UNION {[1..n -> IntBytes] : n \in 0..MaxBodyLen}

\* the widths intdecoder is called with: the two it accepts and one it refuses
Widths == {8, 16, 32}

RECURSIVE Pow2(_)
Pow2(n) == IF n = 0 THEN 1 ELSE 2 * Pow2(n - 1)

\* value.uintbe: the bytes of the window, most significant first
RECURSIVE uintbe(_)
uintbe(w) ==
    IF w = <<>> THEN 0 ELSE Pow2(8 * (Len(w) - 1)) * Head(w) + uintbe(Tail(w))

\* value.uintle: the bytes of the window, least significant first
RECURSIVE uintle(_)
uintle(w) ==
    IF w = <<>> THEN 0 ELSE Head(w) + 256 * uintle(Tail(w))

\* value.intle: two's complement over the bits of the window
intle(w) ==
    IF uintle(w) >= Pow2(8 * Len(w) - 1)
    THEN uintle(w) - Pow2(8 * Len(w))
    ELSE uintle(w)

DigitChars == <<"0", "1", "2", "3", "4", "5", "6", "7", "8", "9">>

\* the decimal digits of n >= 0
RECURSIVE Digits(_)
Digits(n) ==
    IF n < 10 THEN <<DigitChars[n + 1]>>
    ELSE Digits(n \div 10) \o <<DigitChars[(n % 10) + 1]>>

RECURSIVE ZeroPad(_, _)
ZeroPad(ds, n) == IF Len(ds) >= n THEN ds ELSE ZeroPad(<<"0">> \o ds, n)

\* "%0<n>i" % v: sign first, then zeros up to n chars in all
Format(v, n) ==
    IF v < 0 THEN <<"-">> \o ZeroPad(Digits(0 - v), n - 1)
    ELSE ZeroPad(Digits(v), n)

\* " ".join(s)
RECURSIVE Join(_)
Join(ss) ==
    IF ss = <<>> THEN <<>>
    ELSE IF Len(ss) = 1 THEN ss[1]
    ELSE ss[1] \o <<" ">> \o Join(Tail(ss))

\* l.86-88: one formatted integer per step of range(0, body.len, width); the
\* window body[idx:idx+width] ends where the body ends
RECURSIVE FormatWindows(_, _, _)
FormatWindows(body, nbytes, signed) ==
    IF body = <<>> THEN <<>>
    ELSE LET value == Slice(body, 0, nbytes)
         IN  << Format(IF signed THEN intle(value) ELSE uintle(value),
                       IF nbytes = 2 THEN 5 ELSE 3) >>
             \o FormatWindows(SliceFrom(body, nbytes), nbytes, signed)

intdecoder(body, width, signed) ==
    IF width % 8 # 0 \/ width \notin {8, 16}
    THEN Result("AssertionError", <<>>)                          \* l.79-80
    ELSE Result("list",
                [ints |-> Join(FormatWindows(body, width \div 8, signed)),
                 strbody |-> hexlify(body)])                     \* l.81-89

CallIntDecoder(body, width, signed) ==
    /\ pure' = [fn |-> "intdecoder", input |-> body, param |-> width,
                signed |-> signed] @@ intdecoder(body, width, signed)
    /\ UNCHANGED <<syncvars, handlers, decoded>>

NextPure ==
    \/ \E pdu \in PduTexts, speclen \in SpecLens : CallCheckLength(pdu, speclen)
    \/ \E body \in IntBodies, width \in Widths, signed \in BOOLEAN :
           CallIntDecoder(body, width, signed)

SpecPure == Init /\ [][NextPure]_vars

----------------------------------------------------------------------------
(* The wire format of the specification, against which the claims are read *)

\* <<k, i>>: the pattern of headers[i] stands at 0-based offset k of b
Matches(b) ==
    {m \in (0..Len(b)) \X (1..Len(headers)) :
        /\ m[1] + 4 <= Len(b)
        /\ SubSeq(b, m[1] + 1, m[1] + 4) = Pattern(headers[m[2]][1])}

\* sentinel, header, body and trailing byte of the match are all in b
Complete(b, m) == Len(b) - m[1] >= 1 + 3 + headers[m[2]][2] + 1

TrailingByte(b, m) == b[(m[1] + 1 + 3 + headers[m[2]][2]) + 1]

WellFormed(b, m) == Complete(b, m) /\ TrailingByte(b, m) = SENTINEL

\* header and body of the match, sentinels stripped
FrameOf(b, m) == Slice(b, m[1] + 1, m[1] + 1 + 3 + headers[m[2]][2])

Before(m, n) == m[1] < n[1] \/ (m[1] = n[1] /\ m[2] <= n[2])

Lowest(ms) == CHOOSE m \in ms : \A n \in ms : Before(m, n)

FrameItems(items) == {i \in 1..Len(items) : items[i].kind = "frame"}

RECURSIVE Reassemble(_)
Reassemble(items) ==
    IF items = <<>> THEN <<>>
    ELSE (IF Head(items).kind = "frame"
          THEN <<SENTINEL>> \o Head(items).data \o <<SENTINEL>>
          ELSE Head(items).data) \o Reassemble(Tail(items))

----------------------------------------------------------------------------
(* Claims *)

C2_NoPartialEmit ==
    last.ran =>
        \A m \in Matches(last.buf) :
            ~Complete(last.buf, m) =>
                /\ \A i \in FrameItems(last.items) :
                       last.items[i].off # last.base + m[1] + 1
                /\ m = Lowest(Matches(last.buf)) =>
                       (last.items = <<>> /\ pc = "run")

C4_FalsePositive ==
    last.ran =>
        \A m \in Matches(last.buf) :
            (Complete(last.buf, m) /\ TrailingByte(last.buf, m) # SENTINEL) =>
                /\ pc = "run"
                /\ \A i \in FrameItems(last.items) :
                       last.items[i].off # last.base + m[1] + 1

C6_JunkBeforeFrame ==
    (last.ran /\ \E m \in Matches(last.buf) : WellFormed(last.buf, m)) =>
        LET m == Lowest({n \in Matches(last.buf) : WellFormed(last.buf, n)})
        IN  IF m[1] > 0
            THEN last.items =
                   << Junk(Slice(last.buf, 0, m[1]), last.base),
                      Frame(FrameOf(last.buf, m), last.base + m[1] + 1) >>
            ELSE \A i \in 1..Len(last.items) : last.items[i].kind # "junk"

C8_LowestOffsetWins ==
    (last.ran /\ Cardinality({m[2] : m \in Matches(last.buf)}) >= 2) =>
        LET m == Lowest(Matches(last.buf))
        IN  /\ Scan(last.buf).framelen = headers[m[2]][2]
            /\ WellFormed(last.buf, m) =>
                   (Scan(last.buf).frameidx = m[1] /\ err = NoError)

\* C9: decode_frame on a frame of fewer than 4 bytes raises DataError and
\* returns no mapping, whatever the registry holds.
C9_ShortFrame ==
    (decoded.kind # "nocall" /\ Len(decoded.frame) < 4) =>
        (decoded.kind = "DataError" /\ decoded.keys = {})

C9_Witness ==
    /\ decoded.kind = "DataError"
    /\ Len(decoded.frame) = 3
    /\ hexlify(decoded.frame) \in decoded.reg

\* C10: decode_frame on a frame of at least 4 bytes whose type has no entry
\* in the registry raises nothing and returns None.
C10_NoHandler ==
    (/\ decoded.kind # "nocall"
     /\ Len(decoded.frame) >= 4
     /\ hexlify(Slice(decoded.frame, 0, 3)) \notin decoded.reg) =>
        (decoded.kind = "None" /\ decoded.keys = {})

C10_Witness ==
    /\ decoded.kind = "None"
    /\ Len(decoded.frame) >= 4
    /\ decoded.reg # {}

RECURSIVE ParseDigits(_, _)
ParseDigits(cs, acc) ==
    IF cs = <<>> THEN acc
    ELSE ParseDigits(Tail(cs),
                     10 * acc + (CHOOSE d \in 0..9 : DigitChars[d + 1] = Head(cs)))

ParseInt(cs) ==
    IF Head(cs) = "-" THEN 0 - ParseDigits(Tail(cs), 0) ELSE ParseDigits(cs, 0)

RECURSIVE SplitInts(_, _)
SplitInts(cs, word) ==
    IF cs = <<>> THEN (IF word = <<>> THEN <<>> ELSE <<ParseInt(word)>>)
    ELSE IF Head(cs) = " " THEN <<ParseInt(word)>> \o SplitInts(Tail(cs), <<>>)
    ELSE SplitInts(Tail(cs), word \o <<Head(cs)>>)

IntsOf(text) == SplitInts(text, <<>>)

\* the value of the bytes lo, hi read little-endian over bits bits, signed or not
Expected(lo, hi, bits, signed) ==
    LET u == lo + 256 * hi
    IN  IF signed /\ u >= Pow2(bits - 1) THEN u - Pow2(bits) ELSE u

\* C20 as stated: for width 8 or 16 intdecoder yields body.len / width
\* integers, the k-th read little-endian from the k-th window of exactly
\* width bits, a signed one being the unsigned one minus 2^width when the
\* window's top bit is set.
C20_ExactWindows ==
    (pure.fn = "intdecoder" /\ pure.kind = "list") =>
        LET n == pure.param \div 8
            ints == IntsOf(pure.value.ints)
        IN  /\ Len(ints) * n = Len(pure.input)
            /\ \A k \in 1..Len(ints) :
                   ints[k] = Expected(pure.input[n * (k - 1) + 1],
                                      IF n = 2 THEN pure.input[n * k] ELSE 0,
                                      pure.param, pure.signed)

\* C20 amended: the windows are successive, do not overlap and cover the
\* body; each has width bits, except that with width 16 and an odd number of
\* body bytes the last one has 8 bits; there are as many integers as
\* windows, each read little-endian over the bits of its window, signed
\* being unsigned minus 2^(bits of the window) when its top bit is set.
C20_CoveringWindows ==
    (pure.fn = "intdecoder" /\ pure.kind = "list") =>
        LET n == pure.param \div 8
            len == Len(pure.input)
            ints == IntsOf(pure.value.ints)
        IN  /\ Len(ints) = (len + n - 1) \div n
            /\ \A k \in 1..Len(ints) :
                   IF n * k <= len
                   THEN ints[k] = Expected(pure.input[n * (k - 1) + 1],
                                           IF n = 2 THEN pure.input[n * k] ELSE 0,
                                           pure.param, pure.signed)
                   ELSE ints[k] = Expected(pure.input[len], 0, 8, pure.signed)

C20_Witness ==
    /\ pure.fn = "intdecoder"
    /\ pure.kind = "list"
    /\ pure.param = 16
    /\ pure.signed
    /\ pure.input = <<1, 255, 128>>
    /\ IntsOf(pure.value.ints) = <<-255, -128>>

\* C12: decode_frame on a "no fix" frame of a registered type returns a
\* mapping in which both values of the pair are not-a-number: lat and lon
\* with mdesc "gpspos", cog and sog with mdesc "gpscog".
C12_NoFix ==
    /\ (/\ decoded.frame = GpsPosNoFix
        /\ hexlify(Slice(GpsPosNoFix, 0, 3)) \in decoded.reg
        /\ decoded.kind # "nocall") =>
           /\ decoded.kind = "dict"
           /\ {<<"mdesc", "gpspos">>, <<"lat", "nan">>, <<"lon", "nan">>} \subseteq decoded.keys
    /\ (/\ decoded.frame = GpsCogNoFix
        /\ hexlify(Slice(GpsCogNoFix, 0, 3)) \in decoded.reg
        /\ decoded.kind # "nocall") =>
           /\ decoded.kind = "dict"
           /\ {<<"mdesc", "gpscog">>, <<"cog", "nan">>, <<"sog", "nan">>} \subseteq decoded.keys

\* C18: with a handler registered for the frame's type, decode_frame either
\* fails the assertion (the handler returned no field), passes on the
\* handler's DataError, or returns the mapping of the handler's fields.
C18_HandlerOutcome ==
    (/\ decoded.kind # "nocall"
     /\ Len(decoded.frame) >= 4
     /\ hexlify(Slice(decoded.frame, 0, 3)) \in decoded.reg) =>
        decoded.kind \in {"AssertionError", "DataError", "dict"}

\* C14: the buffer is the tail of the bytes read so far, and a step changes
\* it only by appending the bytes just read and dropping bytes at its head.
C14_Contiguous ==
    /\ Len(buf) <= Len(consumed)
    /\ buf = SliceFrom(consumed, Len(consumed) - Len(buf))
    /\ last.ran =>
          /\ Len(last.buf) >= Len(buf)
          /\ buf = SliceFrom(last.buf, Len(last.buf) - Len(buf))
          /\ Len(last.buf) >= Len(last.chunk)
          /\ last.chunk = SliceFrom(last.buf, Len(last.buf) - Len(last.chunk))

C14_Witness ==
    /\ reads >= 2
    /\ last.chunk # <<>>
    /\ Len(buf) > Len(last.chunk)
    /\ emitted # <<>>
    /\ pc = "run"

\* C16: a read that returns no byte is "no data yet": the round yields
\* nothing, leaves the buffer as it was, raises nothing, and the generator
\* goes on to the next read.
C16_EmptyRead ==
    (last.ran /\ last.chunk = <<>>) =>
        /\ pc = "run"
        /\ err = NoError
        /\ last.items = <<>>
        /\ buf = last.buf

\* C17: a complete well-formed frame in the stream is yielded in the end;
\* once the generator has ended, every well-formed frame it has read is
\* among the frames it yielded.
C17_FrameDelivered ==
    pc = "raised" =>
        \A m \in Matches(consumed) :
            WellFormed(consumed, m) =>
                \E i \in FrameItems(emitted) :
                    emitted[i] = Frame(FrameOf(consumed, m), m[1] + 1)

Rechunkings(s) ==
    {<<s>>} \cup {<<Slice(s, 0, k), SliceFrom(s, k)>> : k \in 1..(Len(s) - 1)}

Seen(items) == [i \in 1..Len(items) |-> <<items[i].kind, items[i].data>>]

C13_FailureConfined ==
    decoded.kind \in {"DataError", "None"} =>
        /\ reads = decoded.at.reads =>
              (buf = decoded.at.buf /\ pc = decoded.at.pc
                 /\ Len(emitted) = decoded.at.seen)
        /\ (reads > decoded.at.reads /\ last.ran) =>
              \A m \in Matches(last.buf) :
                  (/\ WellFormed(last.buf, m)
                   /\ last.base + m[1] >= emitted[decoded.at.seen].off
                                            + Len(emitted[decoded.at.seen].data)) =>
                      \E i \in FrameItems(emitted) :
                          /\ i > decoded.at.seen
                          /\ emitted[i] = Frame(FrameOf(last.buf, m),
                                                last.base + m[1] + 1)

=============================================================================
